---- MODULE Spec2Model ----
(***************************************************************************)
(* A model of the adversarial-variational-bayes repository:                *)
(*   - utils/datasets.py            load_mnist, load_npoints               *)
(*   - avb/models/networks/encoder  Encoder, MomentEstimationEncoder,      *)
(*                                  ReparametrisedGaussianEncoder          *)
(*   - launcher.py                  run_synthetic_experiment,              *)
(*                                  run_mnist_experiment                   *)
(* Three specifications share one Init: SpecDatasets, SpecEncoder and      *)
(* SpecLauncher.                                                           *)
(***************************************************************************)
EXTENDS Integers, Sequences, FiniteSets, TLC

VARIABLES
    ds_pc,      \* datasets: "idle" before a loader is called, "done" after
    ds_call,    \* datasets: the loader called and its arguments
    ds_ret,     \* datasets: what the loader returned or raised
    graph,      \* the nodes living in the backend's global graph/session
    enc_pc,     \* encoder: "none", "built", "failed" (constructor raised), "called"
    enc,        \* encoder: the object the constructor built
    enc_call,   \* encoder: the arguments of the __call__ in progress
    enc_out,    \* encoder: what that __call__ returned
    pc,         \* launcher: the statement the running experiment is at, or "idle"
    experiment, \* launcher: the entry point running and its model argument
    runs,       \* launcher: the number of experiments started so far
    dataset,    \* launcher: the row counts of the loaded data set's parts
    trainer,    \* launcher: the trainer constructed by the running experiment
    model_dir,  \* launcher: the directory run_training returned
    arrays,     \* launcher: the row counts of the arrays the queries returned
    events,     \* launcher: the calls the running experiment has completed
    written,    \* launcher: the files the running experiment has saved
    result      \* launcher: how the last experiment ended

ds_vars == <<ds_pc, ds_call, ds_ret>>
enc_vars == <<enc_pc, enc, enc_call, enc_out>>
l_vars == <<pc, experiment, runs, dataset, trainer, model_dir, arrays, events, written, result>>

vars == <<ds_vars, graph, enc_vars, l_vars>>

(***************************************************************************)
(* Bounds of the model.                                                    *)
(***************************************************************************)
MaxRows == 2        \* rows of an MNIST stand-in data set
MaxN == 4           \* largest n passed to load_npoints
MaxDim == 2         \* largest data, noise and latent dimensionality of an encoder
MaxRuns == 2        \* experiments started in one process

(***************************************************************************)
(* Numbers.  Pixel data is held in fixed point, as multiples of 1/255: the *)
(* float v is the integer 255 * v.  A byte b read from an IDX file and     *)
(* divided by 255. is therefore b, the same byte left undivided is 255*b,  *)
(* the threshold 0.2 is 51 and the binarised values 0 and 1 are 0 and 255. *)
(***************************************************************************)
ByteScale == 255    \* images ... / 255.
Threshold == 51     \* threshold=0.2, in units of 1/255
RepeatCount == 512  \* np.repeat(..., 512, axis=0)
TFNumClasses == 10  \* columns of the one-hot labels read_data_sets builds

Real(k) == k * ByteScale

Min(a, b) == IF a < b THEN a ELSE b
Max(a, b) == IF a > b THEN a ELSE b

(***************************************************************************)
(* utils/datasets.py                                                       *)
(***************************************************************************)
\* The values the stand-in MNIST files hold: pixel bytes around the
\* threshold (0.2 * 255 = 51) and at both ends, and a few labels.
PixelBytes == {0, 51, 52, 255}
LabelVals == {0, 1, 2}

RECURSIVE SeqsUpTo(_, _)
SeqsUpTo(S, n) ==
    IF n = 0 THEN {<<>>}
    ELSE LET shorter == SeqsUpTo(S, n - 1)
         IN shorter \cup {Append(s, x) : s \in {t \in shorter : Len(t) = n - 1}, x \in S}

\* The content of MNIST as a source holds it: one pixel per image suffices
\* for the element-wise operations of the loader.
SeqsOfLen(S, r) == {s \in SeqsUpTo(S, r) : Len(s) = r}

MnistContents ==
    UNION {{[images |-> [i \in 1..r |-> <<px[i]>>], labels |-> lb] :
                px \in SeqsOfLen(PixelBytes, r), lb \in SeqsOfLen(LabelVals, r)} :
            r \in 1..MaxRows}

\* len(np.unique(raw_target)), then fancy indexing by the label values: an
\* index outside [-n_uniques, n_uniques) raises IndexError, a negative one
\* counts from the last column.
convert_to_one_hot(raw_target) ==
    LET n_uniques == Cardinality({raw_target[i] : i \in DOMAIN raw_target})
        InRange(c) == c >= -n_uniques /\ c < n_uniques
        Col(c) == IF c < 0 THEN c + n_uniques ELSE c
    IN  IF \E i \in DOMAIN raw_target : ~InRange(raw_target[i])
        THEN [status |-> "IndexError", value |-> <<>>]
        ELSE [status |-> "ok",
              value |-> [i \in DOMAIN raw_target |->
                            [j \in 1..n_uniques |->
                                IF j - 1 = Col(raw_target[i]) THEN 1 ELSE 0]]]

\* (raw_data > threshold).astype(np.int32), element by element.  load_mnist
\* calls binarise with mode='threshold' only.
binarise(raw_data, threshold) ==
    [i \in DOMAIN raw_data |->
        [j \in DOMAIN raw_data[i] |->
            IF raw_data[i][j] > threshold THEN Real(1) ELSE Real(0)]]

\* _load_mnist_from_file: the image bytes divided by 255., the label bytes.
load_mnist_from_file(content) ==
    [images |-> [i \in DOMAIN content.images |->
                    [j \in DOMAIN content.images[i] |->
                        Real(content.images[i][j]) \div ByteScale]],
     labels |-> content.labels]

\* fetcher.fetch_mldata("MNIST Original"): the data set as mldata.org holds
\* it, the pixel intensities being the bytes 0..255; load_mnist applies no
\* scaling to them.
fetch_mldata(content) ==
    [data |-> [i \in DOMAIN content.images |->
                  [j \in DOMAIN content.images[i] |-> Real(content.images[i][j])]],
     target |-> content.labels]

\* input_data.read_data_sets(mnist_path, one_hot=one_hot) followed by the
\* concatenation of its splits: images as floats in [0, 1], labels as
\* integers or as rows of TFNumClasses columns.
read_data_sets(content, one_hot) ==
    [images |-> [i \in DOMAIN content.images |->
                    [j \in DOMAIN content.images[i] |->
                        Real(content.images[i][j]) \div ByteScale]],
     labels |-> IF one_hot
                THEN [i \in DOMAIN content.labels |->
                        [j \in 1..TFNumClasses |->
                            IF j - 1 = content.labels[i] THEN 1 ELSE 0]]
                ELSE content.labels]

Raised(error, fetches) ==
    [status |-> error, data |-> <<>>, target |-> <<>>, fetches |-> fetches]

Returned(data, target, fetches) ==
    [status |-> "ok", data |-> data, target |-> target, fetches |-> fetches]

\* except urllib2.HTTPError: the only failure of the primary fetch that is
\* caught.
Caught(error) == error = "HTTPError"

\* The environment of a call: whether the local path exists, how the fetch
\* from mldata.org ends ("ok", "HTTPError", or "URLError" for a failure that
\* is no HTTP response, such as an unreachable host), how the fetch through
\* tensorflow ends, and the content of the data set.
load_mnist(local_data_path, one_hot, binarised, env) ==
    IF local_data_path = "None"
    THEN IF env.primary = "ok"
         THEN LET mnist == fetch_mldata(env.content)
                  hot == convert_to_one_hot(mnist.target)
              IN  IF one_hot /\ hot.status # "ok"
                  THEN Raised(hot.status, <<"mldata">>)
                  ELSE Returned(IF binarised THEN binarise(mnist.data, Threshold)
                                             ELSE mnist.data,
                                IF one_hot THEN hot.value ELSE mnist.target,
                                <<"mldata">>)
         ELSE IF Caught(env.primary)
         THEN IF env.fallback = "ok"
              THEN LET mnist == read_data_sets(env.content, one_hot)
                   IN  Returned(IF binarised THEN binarise(mnist.images, Threshold)
                                              ELSE mnist.images,
                                mnist.labels,
                                <<"mldata", "tensorflow">>)
              ELSE Raised(env.fallback, <<"mldata", "tensorflow">>)
         ELSE Raised(env.primary, <<"mldata">>)
    ELSE IF env.path_exists
         THEN LET file == load_mnist_from_file(env.content)
                  hot == convert_to_one_hot(file.labels)
              IN  IF one_hot /\ hot.status # "ok"
                  THEN Raised(hot.status, <<>>)
                  ELSE Returned(IF binarised THEN binarise(file.images, Threshold)
                                             ELSE file.images,
                                IF one_hot THEN hot.value ELSE file.labels,
                                <<>>)
         ELSE Raised("ValueError", <<>>)

\* np.repeat(a, repeats, axis=0): each row in turn, repeats times.
RepeatRow(row, repeats) == [k \in 1..repeats |-> row]

\* np.tile(a, (repeats, 1)): the whole array in turn, repeats times.
tile(a, repeats) ==
    [i \in 1..(Len(a) * repeats) |-> a[((i - 1) % Len(a)) + 1]]

RECURSIVE repeat(_, _)
repeat(a, repeats) ==
    IF a = <<>> THEN <<>>
    ELSE RepeatRow(Head(a), repeats) \o repeat(Tail(a), repeats)

\* np.eye(n) and np.arange(n)
eye(n) == [i \in 1..n |-> [j \in 1..n |-> IF i = j THEN 1 ELSE 0]]
arange(n) == [i \in 1..n |-> i - 1]

load_npoints(n) ==
    [data |-> repeat(eye(n), RepeatCount), target |-> repeat(arange(n), RepeatCount)]

\* The calls of load_mnist the model makes.
MnistEnvs ==
    {[path_exists |-> pe, primary |-> p, fallback |-> f, content |-> c] :
        pe \in BOOLEAN, p \in {"ok", "HTTPError", "URLError"},
        f \in {"ok", "IOError"}, c \in MnistContents}

\* Only what a call reads distinguishes two environments.
RelevantEnv(path, env) ==
    IF path = "None"
    THEN /\ env.path_exists
         /\ (env.primary # "HTTPError" => env.fallback = "ok")
    ELSE env.primary = "ok" /\ env.fallback = "ok"

Call_load_mnist ==
    /\ ds_pc = "idle"
    /\ \E path \in {"None", "data/MNIST"}, one_hot \in BOOLEAN, binarised \in BOOLEAN,
          env \in MnistEnvs :
            /\ RelevantEnv(path, env)
            /\ ds_call' = [op |-> "load_mnist", local_data_path |-> path,
                           one_hot |-> one_hot, binarised |-> binarised, env |-> env]
            /\ ds_ret' = load_mnist(path, one_hot, binarised, env)
    /\ ds_pc' = "done"
    /\ UNCHANGED <<graph, enc_vars, l_vars>>

Call_load_npoints ==
    /\ ds_pc = "idle"
    /\ \E n \in 1..MaxN :
            /\ ds_call' = [op |-> "load_npoints", n |-> n]
            /\ ds_ret' = load_npoints(n)
    /\ ds_pc' = "done"
    /\ UNCHANGED <<graph, enc_vars, l_vars>>

DsInit ==
    /\ ds_pc = "idle"
    /\ ds_call = [op |-> "none"]
    /\ ds_ret = [status |-> "none"]

NextDatasets == Call_load_mnist \/ Call_load_npoints

(***************************************************************************)
(* avb/models/networks/encoder.py                                          *)
(*                                                                         *)
(* Tensor values are held in fixed point, as multiples of 1/1000.          *)
(***************************************************************************)
Fix(k) == k * 1000
FixMul(a, b) == (a * b) \div 1000

\* ker.exp on the arguments the model reaches, -2.0 to 2.0 in steps of 0.5,
\* rounded to three decimals.
Exp(x) ==
    CASE x = -2000 -> 135  [] x = -1500 -> 223  [] x = -1000 -> 368
      [] x = -500 -> 607   [] x = 0 -> 1000     [] x = 500 -> 1649
      [] x = 1000 -> 2718  [] x = 1500 -> 4482  [] x = 2000 -> 7389

VecSum(v) ==
    LET RECURSIVE Upto(_)
        Upto(k) == IF k = 0 THEN 0 ELSE v[k] + Upto(k - 1)
    IN  Upto(Len(v))

\* architectures.get_network_by_name: role -> architecture name -> builder.
SupportedArchitectures == {"synthetic", "mnist"}
Roles == {"encoder", "moment_estimation_encoder", "reparametrised_encoder",
          "decoder", "discriminator"}
get_network_by_name == [role \in Roles |-> SupportedArchitectures]

HasBuilder(role, network_architecture) ==
    role \in DOMAIN get_network_by_name /\ network_architecture \in get_network_by_name[role]

\* What a builder adds to the graph, and the functions its outputs compute
\* from the fed inputs: one dense unit per output component, with weights
\* w (slope), b (offset) and v (slope of the log-variance).
BuilderNodes(role, network_architecture) == {<<role, network_architecture>>}

Dense(weights, inputs, latent_dim) ==
    [j \in 1..latent_dim |-> weights.w * VecSum(inputs) + Fix(weights.b)]

LogVarNet(weights, data, latent_dim) ==
    [j \in 1..latent_dim |-> weights.v * VecSum(data)]

SquareSum(weights, sampling, latent_dim) ==
    [j \in 1..latent_dim |-> FixMul(VecSum(sampling), VecSum(sampling))]

\* Lambda(lambda x: x[0] + ker.exp(x[1] / 2.0) * x[2])
reparametrise_added(x) ==
    [j \in DOMAIN x[1] |-> x[1][j] + Exp(x[2][j] \div 2) + x[3][j]]

reparametrise(x) ==
    [j \in DOMAIN x[1] |-> x[1][j] + FixMul(Exp(x[2][j] \div 2), x[3][j])]

Model(inputs, outputs, name) == [inputs |-> inputs, outputs |-> outputs, name |-> name]

Failed(cls, network_architecture, created) ==
    [status |-> "ConfigurationError", created |-> created,
     object |-> [cls |-> cls, network_architecture |-> network_architecture]]

Built(object, created) ==
    [status |-> "ok", created |-> created, object |-> object]

Shape(cls, data_dim, noise_dim, latent_dim, network_architecture, weights) ==
    [cls |-> cls, data_dim |-> data_dim, noise_dim |-> noise_dim, latent_dim |-> latent_dim,
     network_architecture |-> network_architecture, weights |-> weights]

\* Encoder.__init__: the two Input placeholders, then the registry lookup
\* and the builder, then the Model.
Encoder_init(data_dim, noise_dim, latent_dim, network_architecture, weights) ==
    LET placeholders == {<<"Input", "enc_input_data">>, <<"Input", "enc_input_noise">>}
    IN  IF ~HasBuilder("encoder", network_architecture)
        THEN Failed("Encoder", network_architecture, placeholders)
        ELSE Built([shape |-> Shape("Encoder", data_dim, noise_dim, latent_dim,
                                    network_architecture, weights),
                    encoder_model |->
                        Model(<<"data_input", "noise_input">>, <<"latent_factors">>, "encoder")],
                   placeholders \cup BuilderNodes("encoder", network_architecture)
                                \cup {<<"Model", "encoder">>})

\* MomentEstimationEncoder.__init__
MomentEstimationEncoder_init(data_dim, noise_dim, latent_dim, network_architecture, weights) ==
    LET placeholders == {<<"Input", "enc_input_data">>, <<"Input", "enc_input_noise">>,
                         <<"Input", "enc_input_moment_estimator_sampling">>}
    IN  IF ~HasBuilder("moment_estimation_encoder", network_architecture)
        THEN Failed("MomentEstimationEncoder", network_architecture, placeholders)
        ELSE Built([shape |-> Shape("MomentEstimationEncoder", data_dim, noise_dim, latent_dim,
                                    network_architecture, weights),
                    encoder_model |->
                        Model(<<"data_input", "noise_input">>, <<"latent_factors">>, "encoder"),
                    moment_estimation_model |->
                        Model(<<"data_input", "sampling_input">>, <<"mean", "var">>,
                              "encoder_moment_estimation")],
                   placeholders
                        \cup BuilderNodes("moment_estimation_encoder", network_architecture)
                        \cup {<<"Model", "encoder">>, <<"Model", "encoder_moment_estimation">>})

\* ReparametrisedGaussianEncoder.__init__
ReparametrisedGaussianEncoder_init(data_dim, noise_dim, latent_dim, network_architecture, weights) ==
    LET placeholders == {<<"Input", "rep_enc_input_data">>, <<"Input", "rep_enc_input_noise">>}
    IN  IF ~HasBuilder("reparametrised_encoder", network_architecture)
        THEN Failed("ReparametrisedGaussianEncoder", network_architecture, placeholders)
        ELSE Built([shape |-> Shape("ReparametrisedGaussianEncoder", data_dim, noise_dim,
                                    latent_dim, network_architecture, weights),
                    encoder_inference_model |->
                        Model(<<"data_input", "noise_input">>, <<"latent_factors">>,
                              "reparametrised_encoder"),
                    encoder_learning_model |->
                        Model(<<"data_input", "noise_input">>,
                              <<"latent_factors", "latent_mean", "latent_log_var">>, "model")],
                   placeholders
                        \cup BuilderNodes("reparametrised_encoder", network_architecture)
                        \cup {<<"Lambda", "rep_enc_reparametrised_latent">>,
                              <<"Model", "reparametrised_encoder">>, <<"Model", "model">>})

\* The value of one symbolic tensor of an encoder's graph when the model's
\* two inputs are fed with args0 = <<data, noise or sampling noise>>.
Tensor(shape, name, args0) ==
    LET w == shape.weights
        k == shape.latent_dim
    IN  CASE shape.cls = "ReparametrisedGaussianEncoder" /\ name = "latent_mean" ->
                Dense(w, args0[1], k)
          [] shape.cls = "ReparametrisedGaussianEncoder" /\ name = "latent_log_var" ->
                LogVarNet(w, args0[1], k)
          [] shape.cls = "ReparametrisedGaussianEncoder" /\ name = "latent_factors" ->
                reparametrise(<<Dense(w, args0[1], k), LogVarNet(w, args0[1], k), args0[2]>>)
          [] shape.cls # "ReparametrisedGaussianEncoder" /\ name = "latent_factors" ->
                Dense(w, args0[1] \o args0[2], k)
          [] shape.cls = "MomentEstimationEncoder" /\ name = "mean" ->
                Dense(w, args0[1], k)
          [] shape.cls = "MomentEstimationEncoder" /\ name = "var" ->
                SquareSum(w, args0[2], k)

\* Calling a keras Model on its inputs: its outputs, in order.
RunModel(shape, model, args0) ==
    [i \in DOMAIN model.outputs |-> Tensor(shape, model.outputs[i], args0)]

\* kwargs.get(key, default)
KwGet(kwargs, key, default) == IF key \in DOMAIN kwargs THEN kwargs[key] ELSE default

\* Encoder.__call__
Encoder_call(self, args0, kwargs) ==
    RunModel(self.shape, self.encoder_model, args0)

\* MomentEstimationEncoder.__call__
MomentEstimationEncoder_call(self, args0, kwargs) ==
    LET estimate_moments == KwGet(kwargs, "estimate_moments", FALSE)
    IN  IF estimate_moments
        THEN RunModel(self.shape, self.moment_estimation_model, args0)
        ELSE RunModel(self.shape, self.encoder_model, args0)

\* ReparametrisedGaussianEncoder.__call__
ReparametrisedGaussianEncoder_call_default_inference(self, args0, kwargs) ==
    LET is_learninig == KwGet(kwargs, "is_learning", FALSE)
    IN  IF is_learninig
        THEN RunModel(self.shape, self.encoder_learning_model, args0)
        ELSE RunModel(self.shape, self.encoder_inference_model, args0)

ReparametrisedGaussianEncoder_call(self, args0, kwargs) ==
    LET is_learninig == KwGet(kwargs, "is_learning", TRUE)
    IN  IF is_learninig
        THEN RunModel(self.shape, self.encoder_learning_model, args0)
        ELSE RunModel(self.shape, self.encoder_inference_model, args0)

Classes == {"Encoder", "MomentEstimationEncoder", "ReparametrisedGaussianEncoder"}
ArchitectureNames == SupportedArchitectures \cup {"cifar"}
WeightChoices == {[w |-> 1, b |-> b, v |-> v] : b \in {0, 1}, v \in {-1, 1}}
KwargChoices ==
    {<<>>} \cup {[is_learning |-> f] : f \in BOOLEAN}
           \cup {[estimate_moments |-> f] : f \in BOOLEAN}

Vectors(S, n) == SeqsOfLen(S, n)

\* The constructors are called with noise_dim = latent_dim, the shapes for
\* which the reparametrisation's element-wise product is defined.
Construct ==
    /\ enc_pc = "none"
    /\ \E cls \in Classes, data_dim \in 1..MaxDim, latent_dim \in 1..MaxDim,
          network_architecture \in ArchitectureNames, weights \in WeightChoices :
            LET noise_dim == latent_dim
                made ==
                    CASE cls = "Encoder" ->
                            Encoder_init(data_dim, noise_dim, latent_dim,
                                         network_architecture, weights)
                      [] cls = "MomentEstimationEncoder" ->
                            MomentEstimationEncoder_init(data_dim, noise_dim, latent_dim,
                                                         network_architecture, weights)
                      [] cls = "ReparametrisedGaussianEncoder" ->
                            ReparametrisedGaussianEncoder_init(data_dim, noise_dim, latent_dim,
                                                               network_architecture, weights)
            IN  /\ graph' = graph \cup made.created
                /\ enc' = made.object
                /\ enc_pc' = IF made.status = "ok" THEN "built" ELSE "failed"
    /\ UNCHANGED <<ds_vars, l_vars, enc_call, enc_out>>

Call ==
    /\ enc_pc = "built"
    /\ \E data \in Vectors({Fix(0), Fix(1)}, enc.shape.data_dim),
          noise \in Vectors({Fix(-1), Fix(0), Fix(1)}, enc.shape.noise_dim),
          kwargs \in KwargChoices :
            LET args0 == <<data, noise>>
            IN  /\ enc_call' = [args0 |-> args0, kwargs |-> kwargs]
                /\ enc_out' =
                    CASE enc.shape.cls = "Encoder" -> Encoder_call(enc, args0, kwargs)
                      [] enc.shape.cls = "MomentEstimationEncoder" ->
                            MomentEstimationEncoder_call(enc, args0, kwargs)
                      [] enc.shape.cls = "ReparametrisedGaussianEncoder" ->
                            ReparametrisedGaussianEncoder_call(enc, args0, kwargs)
    /\ enc_pc' = "called"
    /\ UNCHANGED <<ds_vars, l_vars, graph, enc>>

\* The caller takes the result; the encoder can be called again.
Return ==
    /\ enc_pc = "called"
    /\ enc_pc' = "built"
    /\ enc_call' = [args0 |-> <<>>, kwargs |-> <<>>]
    /\ enc_out' = <<>>
    /\ UNCHANGED <<ds_vars, l_vars, graph, enc>>

EncInit ==
    /\ graph = {}
    /\ enc_pc = "none"
    /\ enc = [cls |-> "none"]
    /\ enc_call = [args0 |-> <<>>, kwargs |-> <<>>]
    /\ enc_out = <<>>

NextEncoder == Construct \/ Call \/ Return

(***************************************************************************)
(* launcher.py                                                             *)
(***************************************************************************)
SupportedModels == {"vae", "avb", "avb+ac"}
ModelStrings == SupportedModels \cup {"gan"}

\* The trainer each branch of the if/elif chain constructs (the optimiser
\* parameters, which no statement of the launcher reads back, are left out).
VAEModelTrainer(data_dim, latent_dim, experiment_name) ==
    [cls |-> "VAEModelTrainer", data_dim |-> data_dim, latent_dim |-> latent_dim,
     experiment_name |-> experiment_name, overwrite |-> TRUE, state |-> "CONFIGURED"]

AVBModelTrainer(data_dim, latent_dim, noise_dim, experiment_name, use_adaptive_contrast) ==
    [cls |-> "AVBModelTrainer", data_dim |-> data_dim, latent_dim |-> latent_dim,
     noise_dim |-> noise_dim, experiment_name |-> experiment_name, overwrite |-> TRUE,
     use_adaptive_contrast |-> use_adaptive_contrast, state |-> "CONFIGURED"]

NoTrainer == [cls |-> "none", state |-> "none"]

synthetic_trainer(model) ==
    LET data_dim == 4
    IN  CASE model = "vae" -> VAEModelTrainer(data_dim, 2, "synthetic")
          [] model = "avb" -> AVBModelTrainer(data_dim, 2, data_dim, "synthetic", FALSE)
          [] model = "avb+ac" -> AVBModelTrainer(data_dim, 2, data_dim, "synthetic", TRUE)
          [] OTHER -> NoTrainer

mnist_trainer(model) ==
    LET data_dim == 28 * 28
        latent_dim == 8
    IN  CASE model = "vae" -> VAEModelTrainer(data_dim, latent_dim, "mnist")
          [] model = "avb" -> AVBModelTrainer(data_dim, latent_dim, 16, "mnist", FALSE)
          [] model = "avb+ac" -> AVBModelTrainer(data_dim, latent_dim, 16, "mnist", TRUE)
          [] OTHER -> NoTrainer

\* trainer.run_training returns the output directory, named by the
\* experiment configuration.
run_training_dir(t) ==
    <<"output",
      IF t.cls = "VAEModelTrainer" THEN "vae"
      ELSE IF t.use_adaptive_contrast THEN "avb_with_ac" ELSE "avb",
      t.experiment_name>>

\* trained_model.reconstruct / infer: each input row replicated
\* sampling_size times; trained_model.generate: n_samples rows.
reconstruct_rows(n_inputs, sampling_size) == sampling_size * n_inputs
infer_rows(n_inputs, sampling_size) == sampling_size * n_inputs
generate_rows(n_samples) == n_samples

\* path_join(model_dir, name)
path_join(dir, name) == <<dir, name>>

\* test_data_size = 100; data[:-test_data_size] and data[-test_data_size:]
head_rows(n, test_data_size) == Max(n - test_data_size, 0)
tail_rows(n, test_data_size) == Min(n, test_data_size)

sampling_size(fn) == IF fn = "synthetic" THEN 1000 ELSE 100

\* The rows handed to reconstruct and infer: train_data in the synthetic
\* experiment, test_data in the MNIST experiment.
query_rows(fn, d) == IF fn = "synthetic" THEN d.train_rows ELSE d.test_rows

Done(event) == events' = Append(events, event)

Goto(next) == pc' = next

Raise(error) ==
    /\ pc' = "idle"
    /\ result' = [kind |-> "raised", value |-> <<error>>]

\* A call of an entry point: logger.info(...)
Start ==
    /\ pc = "idle"
    /\ runs < MaxRuns
    /\ \E fn \in {"synthetic", "mnist"}, model \in ModelStrings :
            experiment' = [fn |-> fn, model |-> model]
    /\ runs' = runs + 1
    /\ dataset' = [train_rows |-> 0, test_rows |-> 0]
    /\ trainer' = NoTrainer
    /\ model_dir' = <<>>
    /\ arrays' = [reconstructions |-> 0, latent_vars |-> 0, generations |-> 0]
    /\ events' = <<>>
    /\ written' = {}
    /\ result' = [kind |-> "running", value |-> <<>>]
    /\ Goto("load")
    /\ UNCHANGED <<ds_vars, enc_vars, graph>>

\* data = load_npoints(n=data_dim)
LoadSynthetic ==
    /\ pc = "load"
    /\ experiment.fn = "synthetic"
    /\ LET loaded == load_npoints(4)
       IN  dataset' = [train_rows |-> Len(loaded.data), test_rows |-> 0]
    /\ Done("load_data")
    /\ Goto("select")
    /\ UNCHANGED <<ds_vars, enc_vars, graph, experiment, runs, trainer, model_dir, arrays,
                   written, result>>

\* The MNIST contents the launcher's runs load.
LauncherEnvs ==
    {env \in MnistEnvs :
        /\ RelevantEnv("None", env)
        /\ \A i \in DOMAIN env.content.images :
            env.content.images[i] = <<255>> /\ env.content.labels[i] = 0}

\* data = load_mnist(binarised=True, one_hot=False), then the split into
\* train and test rows.
LoadMnist ==
    /\ pc = "load"
    /\ experiment.fn = "mnist"
    /\ \E env \in LauncherEnvs :
        LET loaded == load_mnist("None", FALSE, TRUE, env)
            test_data_size == 100
        IN  IF loaded.status = "ok"
            THEN /\ dataset' = [train_rows |-> head_rows(Len(loaded.data), test_data_size),
                             test_rows |-> tail_rows(Len(loaded.data), test_data_size)]
                 /\ Done("load_data")
                 /\ Goto("select")
                 /\ UNCHANGED result
            ELSE /\ Raise(loaded.status)
                 /\ UNCHANGED <<dataset, events>>
    /\ UNCHANGED <<ds_vars, enc_vars, graph, experiment, runs, trainer, model_dir, arrays,
                   written>>

\* The if/elif chain: one trainer for a supported model string, else
\* raise ValueError.  Constructing a trainer builds its networks in the
\* backend's global graph.
SelectTrainer ==
    /\ pc = "select"
    /\ LET t == IF experiment.fn = "synthetic" THEN synthetic_trainer(experiment.model)
                ELSE mnist_trainer(experiment.model)
       IN  IF t = NoTrainer
           THEN /\ Raise("ValueError")
                /\ UNCHANGED <<trainer, graph, events>>
           ELSE /\ trainer' = t
                /\ graph' = graph \cup {<<t.cls, ToString(runs)>>}
                /\ Done("construct_trainer")
                /\ Goto("train")
                /\ UNCHANGED result
    /\ UNCHANGED <<ds_vars, enc_vars, experiment, runs, dataset, model_dir, arrays, written>>

\* model_dir = trainer.run_training(train_data, ...)
RunTraining ==
    /\ pc = "train"
    /\ trainer' = [trainer EXCEPT !.state = "TRAINED"]
    /\ model_dir' = run_training_dir(trainer)
    /\ Done("run_training")
    /\ Goto("get_model")
    /\ UNCHANGED <<ds_vars, enc_vars, graph, experiment, runs, dataset, arrays, written, result>>

\* trained_model = trainer.get_model()
GetModel ==
    /\ pc = "get_model"
    /\ Done("get_model")
    /\ Goto("reconstruct")
    /\ UNCHANGED <<ds_vars, enc_vars, graph, experiment, runs, dataset, trainer, model_dir,
                   arrays, written, result>>

\* reconstructions = trained_model.reconstruct(..., sampling_size=sampling_size)
Reconstruct_unsaved ==
    /\ pc = "reconstruct"
    /\ arrays' = [arrays EXCEPT !.reconstructions =
                    reconstruct_rows(query_rows(experiment.fn, dataset),
                                     sampling_size(experiment.fn))]
    /\ Done("reconstruct")
    /\ Goto("infer")
    /\ UNCHANGED <<ds_vars, enc_vars, graph, experiment, runs, dataset, trainer, model_dir,
                   written, result>>

Reconstruct ==
    /\ pc = "reconstruct"
    /\ arrays' = [arrays EXCEPT !.reconstructions =
                    reconstruct_rows(query_rows(experiment.fn, dataset),
                                     sampling_size(experiment.fn))]
    /\ Done("reconstruct")
    /\ Goto("save_reconstructions")
    /\ UNCHANGED <<ds_vars, enc_vars, graph, experiment, runs, dataset, trainer, model_dir,
                   written, result>>

Save(name, rows, event, next) ==
    /\ written' = written \cup {[path |-> path_join(model_dir, name), rows |-> rows]}
    /\ Done(event)
    /\ Goto(next)
    /\ UNCHANGED <<ds_vars, enc_vars, graph, experiment, runs, dataset, trainer, model_dir,
                   arrays, result>>

\* save_array(path_join(model_dir, 'reconstructed_samples.npy'), reconstructions)
SaveReconstructions ==
    /\ pc = "save_reconstructions"
    /\ Save("reconstructed_samples.npy", arrays.reconstructions,
            "save_reconstructed_samples", "plot_reconstructions")

Plot(event, next) ==
    /\ Done(event)
    /\ Goto(next)
    /\ UNCHANGED <<ds_vars, enc_vars, graph, experiment, runs, dataset, trainer, model_dir,
                   arrays, written, result>>

\* plot_reconstructed_data(...)
PlotReconstructions ==
    /\ pc = "plot_reconstructions"
    /\ Plot("plot_reconstructed_data", "infer")

\* latent_vars = trained_model.infer(..., sampling_size=sampling_size)
Infer_one_sample ==
    /\ pc = "infer"
    /\ arrays' = [arrays EXCEPT !.latent_vars =
                    infer_rows(query_rows(experiment.fn, dataset), 1)]
    /\ Done("infer")
    /\ Goto("save_latent")
    /\ UNCHANGED <<ds_vars, enc_vars, graph, experiment, runs, dataset, trainer, model_dir,
                   written, result>>

Infer ==
    /\ pc = "infer"
    /\ arrays' = [arrays EXCEPT !.latent_vars =
                    infer_rows(query_rows(experiment.fn, dataset),
                               sampling_size(experiment.fn))]
    /\ Done("infer")
    /\ Goto("save_latent")
    /\ UNCHANGED <<ds_vars, enc_vars, graph, experiment, runs, dataset, trainer, model_dir,
                   written, result>>

\* save_array(path_join(model_dir, 'latent_samples.npy'), latent_vars); the
\* MNIST experiment plots the latent space only if latent_dim == 2.
SaveLatent ==
    /\ pc = "save_latent"
    /\ Save("latent_samples.npy", arrays.latent_vars, "save_latent_samples",
            IF experiment.fn = "synthetic" \/ trainer.latent_dim = 2
            THEN "plot_latent" ELSE "generate")

\* plot_latent_2d(...)
PlotLatent ==
    /\ pc = "plot_latent"
    /\ Plot("plot_latent_2d", "generate")

\* generations = trained_model.generate(n_samples=100, batch_size=100)
Generate ==
    /\ pc = "generate"
    /\ arrays' = [arrays EXCEPT !.generations = generate_rows(100)]
    /\ Done("generate")
    /\ Goto("save_generations")
    /\ UNCHANGED <<ds_vars, enc_vars, graph, experiment, runs, dataset, trainer, model_dir,
                   written, result>>

\* save_array(path_join(model_dir, 'generated_samples.npy'), generations)
SaveGenerations ==
    /\ pc = "save_generations"
    /\ Save("generated_samples.npy", arrays.generations, "save_generated_samples",
            "plot_generations")

\* plot_sampled_data(...); run_synthetic_experiment goes on to
\* clear_session(), run_mnist_experiment to its return statement.
PlotGenerations ==
    /\ pc = "plot_generations"
    /\ Plot("plot_sampled_data", IF experiment.fn = "synthetic" THEN "clear_session" ELSE "return")

\* clear_session(): destroys the backend's global graph
ClearSession ==
    /\ pc = "clear_session"
    /\ graph' = {}
    /\ Done("clear_session")
    /\ Goto("return")
    /\ UNCHANGED <<ds_vars, enc_vars, experiment, runs, dataset, trainer, model_dir, arrays,
                   written, result>>

\* return model_dir
ReturnModelDir ==
    /\ pc = "return"
    /\ result' = [kind |-> "returned", value |-> model_dir]
    /\ Done("return")
    /\ Goto("idle")
    /\ UNCHANGED <<ds_vars, enc_vars, graph, experiment, runs, dataset, trainer, model_dir,
                   arrays, written>>

\* A failed training step or an unwritable output path is fatal: the
\* exception leaves the entry point at once.
Abort ==
    /\ pc \in {"train", "save_reconstructions", "save_latent", "save_generations"}
    /\ Raise(IF pc = "train" THEN "TrainingError" ELSE "IOError")
    /\ UNCHANGED <<ds_vars, enc_vars, graph, experiment, runs, dataset, trainer, model_dir,
                   arrays, events, written>>

LInit ==
    /\ pc = "idle"
    /\ experiment = [fn |-> "none", model |-> "none"]
    /\ runs = 0
    /\ dataset = [train_rows |-> 0, test_rows |-> 0]
    /\ trainer = NoTrainer
    /\ model_dir = <<>>
    /\ arrays = [reconstructions |-> 0, latent_vars |-> 0, generations |-> 0]
    /\ events = <<>>
    /\ written = {}
    /\ result = [kind |-> "none", value |-> <<>>]

NextLauncher ==
    \/ Start
    \/ LoadSynthetic
    \/ LoadMnist
    \/ SelectTrainer
    \/ RunTraining
    \/ GetModel
    \/ Reconstruct
    \/ SaveReconstructions
    \/ PlotReconstructions
    \/ Infer
    \/ SaveLatent
    \/ PlotLatent
    \/ Generate
    \/ SaveGenerations
    \/ PlotGenerations
    \/ ClearSession
    \/ ReturnModelDir
    \/ Abort

Init == DsInit /\ EncInit /\ LInit

SpecDatasets == Init /\ [][NextDatasets]_vars
SpecEncoder == Init /\ [][NextEncoder]_vars
SpecLauncher == Init /\ [][NextLauncher]_vars

(***************************************************************************)
(* Claims about utils/datasets.py, checked under SpecDatasets.             *)
(***************************************************************************)
MnistCalled == ds_pc = "done" /\ ds_call.op = "load_mnist"
NpointsCalled == ds_pc = "done" /\ ds_call.op = "load_npoints"

FetchErrors == {"HTTPError", "URLError", "IOError"}

Sum(row) ==
    LET RECURSIVE Upto(_)
        Upto(k) == IF k = 0 THEN 0 ELSE row[k] + Upto(k - 1)
    IN  Upto(Len(row))

DistinctLabels(labels) == {labels[i] : i \in DOMAIN labels}

\* The pixel values a load path hands to the loader, before binarisation.
SourcePixels(call) ==
    IF call.local_data_path # "None"
    THEN load_mnist_from_file(call.env.content).images
    ELSE IF call.env.primary = "ok"
    THEN fetch_mldata(call.env.content).data
    ELSE read_data_sets(call.env.content, call.one_hot).images

\* C5 (as claimed): without a local path the primary source is tried first;
\* after any failure of the primary fetch the secondary source is tried
\* exactly once and, when it succeeds, its data is returned processed with
\* the same options; a fetch error surfaces only when no source succeeds; no
\* source is tried twice; a missing local path raises without any fetch.
C5_FallbackOnAnyFetchFailure ==
    MnistCalled =>
        LET call == ds_call
            env == call.env
            tries(src) == Cardinality({i \in DOMAIN ds_ret.fetches : ds_ret.fetches[i] = src})
        IN  /\ tries("mldata") <= 1 /\ tries("tensorflow") <= 1
            /\ call.local_data_path = "None" =>
                /\ Len(ds_ret.fetches) >= 1 /\ ds_ret.fetches[1] = "mldata"
                /\ env.primary # "ok" => ds_ret.fetches = <<"mldata", "tensorflow">>
                /\ (env.primary # "ok" /\ env.fallback = "ok") =>
                        /\ ds_ret.status = "ok"
                        /\ ds_ret.data =
                              IF call.binarised
                              THEN binarise(read_data_sets(env.content, call.one_hot).images,
                                            Threshold)
                              ELSE read_data_sets(env.content, call.one_hot).images
                /\ ds_ret.status \in FetchErrors =>
                        env.primary # "ok" /\ env.fallback # "ok"
            /\ (call.local_data_path # "None" /\ ~env.path_exists) =>
                    ds_ret.status = "ValueError" /\ ds_ret.fetches = <<>>

\* C7: load_npoints(n) returns n*512 rows of width n and n*512 targets; row
\* i (counted from 0) is row floor(i/512) of the identity matrix and
\* target[i] is floor(i/512).
C7_NpointsRows ==
    NpointsCalled =>
        LET n == ds_call.n
            data == ds_ret.data
            target == ds_ret.target
        IN  /\ Len(data) = n * RepeatCount
            /\ Len(target) = n * RepeatCount
            /\ Len(data) = Len(target)
            /\ \A i \in 1..(n * RepeatCount) :
                /\ Len(data[i]) = n
                /\ \A j \in 1..n :
                    data[i][j] = IF j - 1 = (i - 1) \div RepeatCount THEN 1 ELSE 0
                /\ target[i] = (i - 1) \div RepeatCount

C7_Witness ==
    /\ NpointsCalled
    /\ ds_call.n = 4
    /\ Len(ds_ret.data) = 2048
    /\ ds_ret.data[513] = <<0, 1, 0, 0>>
    /\ ds_ret.target[2048] = 3

\* C8 (as claimed): with binarised=True every load path returns data of the
\* source's shape holding only 0 and 1, an element being 1 exactly when the
\* pixel is strictly above 0.2; with binarised=False the data is the MNIST
\* data converted to floats in [0, 1].
C8_BinarisedOrUnitFloats ==
    (MnistCalled /\ ds_ret.status = "ok") =>
        LET src == SourcePixels(ds_call)
            bytes == ds_call.env.content.images
            data == ds_ret.data
        IN  /\ DOMAIN data = DOMAIN src
            /\ \A i \in DOMAIN data :
                /\ DOMAIN data[i] = DOMAIN src[i]
                /\ \A j \in DOMAIN data[i] :
                    IF ds_call.binarised
                    THEN /\ data[i][j] \in {Real(0), Real(1)}
                         /\ data[i][j] = Real(1) <=> src[i][j] > Threshold
                    ELSE /\ Real(0) <= data[i][j] /\ data[i][j] <= Real(1)
                         /\ data[i][j] * ByteScale = Real(bytes[i][j])

\* Whether the call reached convert_to_one_hot: one_hot=True and the labels
\* came from the local files or from the primary fetch.
ConvertsLabels ==
    /\ MnistCalled
    /\ ds_call.one_hot
    /\ IF ds_call.local_data_path = "None" THEN ds_call.env.primary = "ok"
       ELSE ds_call.env.path_exists

\* C9 (as claimed): with one_hot=True the loader returns, for every label
\* array it receives, one row per label, each row summing to 1 with its
\* single 1 at the column of the label, the number of columns being the
\* number of distinct labels.
C9_OneHotRows ==
    ConvertsLabels =>
        LET labels == ds_call.env.content.labels
            target == ds_ret.target
        IN  /\ ds_ret.status = "ok"
            /\ Len(target) = Len(labels)
            /\ \A i \in DOMAIN target :
                /\ Len(target[i]) = Cardinality(DistinctLabels(labels))
                /\ Sum(target[i]) = 1
                /\ \A j \in DOMAIN target[i] :
                    target[i][j] = IF j - 1 = labels[i] THEN 1 ELSE 0

(***************************************************************************)
(* Claims about avb/models/networks/encoder.py, checked under SpecEncoder. *)
(***************************************************************************)
EncoderModels(cls) ==
    CASE cls = "Encoder" -> {"shape", "encoder_model"}
      [] cls = "MomentEstimationEncoder" -> {"shape", "encoder_model", "moment_estimation_model"}
      [] cls = "ReparametrisedGaussianEncoder" ->
            {"shape", "encoder_inference_model", "encoder_learning_model"}

\* C4 (as claimed): a constructor given a supported architecture name yields
\* a fully built encoder; given any other name it fails with a
\* ConfigurationError, and nothing (no input placeholder, layer or model) has
\* been created in the graph when the lookup fails.
C4_LookupFailsBeforeGraphConstruction ==
    /\ enc_pc \in {"built", "called"} =>
            /\ enc.shape.network_architecture \in SupportedArchitectures
            /\ DOMAIN enc = EncoderModels(enc.shape.cls)
    /\ enc_pc = "failed" =>
            /\ enc.network_architecture \notin SupportedArchitectures
            /\ graph = {}

ReparamCalled ==
    /\ enc_pc = "called"
    /\ enc.shape.cls = "ReparametrisedGaussianEncoder"

ZeroVector(v) == \A j \in DOMAIN v : v[j] = 0

\* C10: the latent a ReparametrisedGaussianEncoder returns is
\* mean + exp(log-variance / 2) * noise, in learning mode with the mean and
\* log-variance returned beside it; with an all-zero noise input the
\* inference-mode latent is the mean, and both modes return the same latent
\* for the same (data, noise).
C10_ReparametrisedLatent ==
    ReparamCalled =>
        LET args0 == enc_call.args0
            noise == args0[2]
            is_learning == KwGet(enc_call.kwargs, "is_learning", TRUE)
            latent == enc_out[1]
            learning == RunModel(enc.shape, enc.encoder_learning_model, args0)
            inference == RunModel(enc.shape, enc.encoder_inference_model, args0)
            mean == IF is_learning THEN enc_out[2] ELSE learning[2]
            log_var == IF is_learning THEN enc_out[3] ELSE learning[3]
        IN  /\ Len(enc_out) = IF is_learning THEN 3 ELSE 1
            /\ DOMAIN latent = 1..enc.shape.latent_dim
            /\ \A j \in DOMAIN latent :
                latent[j] = mean[j] + FixMul(Exp(log_var[j] \div 2), noise[j])
            /\ (~is_learning /\ ZeroVector(noise)) => latent = mean
            /\ latent = learning[1]
            /\ latent = inference[1]

C10_Witness ==
    /\ ReparamCalled
    /\ enc_call.kwargs = [is_learning |-> FALSE]
    /\ enc.shape.latent_dim = 2
    /\ ZeroVector(enc_call.args0[2])
    /\ ~ZeroVector(enc_call.args0[1])
    /\ enc_out = <<Dense(enc.shape.weights, enc_call.args0[1], 2)>>
    /\ enc_out[1][1] # 0

\* The view a call is to return: the tensors named, evaluated on the fed
\* inputs.
View(names, args0) == [i \in DOMAIN names |-> Tensor(enc.shape, names[i], args0)]

FlagSet(kwargs, key, default) ==
    IF key \in DOMAIN kwargs THEN kwargs[key] = TRUE ELSE default

ExpectedView(cls, args0, kwargs) ==
    CASE cls = "ReparametrisedGaussianEncoder" ->
            IF FlagSet(kwargs, "is_learning", TRUE)
            THEN View(<<"latent_factors", "latent_mean", "latent_log_var">>, args0)
            ELSE View(<<"latent_factors">>, args0)
      [] cls = "MomentEstimationEncoder" ->
            IF FlagSet(kwargs, "estimate_moments", FALSE)
            THEN View(<<"mean", "var">>, args0)
            ELSE View(<<"latent_factors">>, args0)
      [] cls = "Encoder" -> View(<<"latent_factors">>, args0)

\* C11: a call of an encoder leaves the encoder's models (and the graph) as
\* they were and returns the view its keyword flag selects:
\* ReparametrisedGaussianEncoder returns (latent, mean, log-variance) when
\* is_learning is true or omitted and the latent alone when it is false;
\* MomentEstimationEncoder returns the (mean, variance) pair of the (data,
\* sampling-noise) model when estimate_moments is true and the latent when it
\* is false or omitted; Encoder returns the latent whatever the keywords.
C11_CallSelectsViewByFlag ==
    [][(enc_pc = "built" /\ enc_pc' = "called") =>
            /\ enc' = enc
            /\ graph' = graph
            /\ enc_out' = ExpectedView(enc.shape.cls, enc_call'.args0, enc_call'.kwargs)
            /\ Len(enc_out') =
                    CASE enc.shape.cls = "ReparametrisedGaussianEncoder" ->
                            IF enc_call'.kwargs = [is_learning |-> FALSE] THEN 1 ELSE 3
                      [] enc.shape.cls = "MomentEstimationEncoder" ->
                            IF enc_call'.kwargs = [estimate_moments |-> TRUE] THEN 2 ELSE 1
                      [] enc.shape.cls = "Encoder" -> 1]_vars

C11_Witness ==
    /\ enc_pc = "called"
    /\ enc.shape.cls = "MomentEstimationEncoder"
    /\ enc_call.kwargs = [estimate_moments |-> TRUE]
    /\ ~ZeroVector(enc_call.args0[2])
    /\ Len(enc_out) = 2
    /\ enc_out[2][1] # 0
    /\ DOMAIN enc = {"shape", "encoder_model", "moment_estimation_model"}

(***************************************************************************)
(* Claims about launcher.py, checked under SpecLauncher.                   *)
(***************************************************************************)
IsPrefix(s, t) == Len(s) <= Len(t) /\ \A i \in DOMAIN s : s[i] = t[i]

Happened(event) == \E i \in DOMAIN events : events[i] = event

Count(event) == Cardinality({i \in DOMAIN events : events[i] = event})

Queries == {"reconstruct", "infer", "generate"}

\* The steps the claims order, in the order claimed.
OrderedSteps ==
    <<"load_data", "construct_trainer", "run_training", "get_model",
      "reconstruct", "save_reconstructed_samples",
      "infer", "save_latent_samples",
      "generate", "save_generated_samples",
      "return">>

IsOrderedStep(e) == \E i \in DOMAIN OrderedSteps : OrderedSteps[i] = e

SavedFile(event) ==
    CASE event = "save_reconstructed_samples" -> "reconstructed_samples.npy"
      [] event = "save_latent_samples" -> "latent_samples.npy"
      [] event = "save_generated_samples" -> "generated_samples.npy"

SaveEvents == {"save_reconstructed_samples", "save_latent_samples", "save_generated_samples"}

Returned_(fn, model) ==
    /\ pc = "idle"
    /\ result.kind = "returned"
    /\ experiment = [fn |-> fn, model |-> model]

FileRows(dir, name) == {f.rows : f \in {g \in written : g.path = <<dir, name>>}}

\* C1: in a run with a supported model string the data set is loaded, the
\* trainer constructed, training run, the trained model obtained, then
\* reconstruct, infer and generate are called once each in that order, each
\* result saved to its own file in the directory run_training returned
\* before the next query; no query precedes the end of training; the entry
\* point returns that directory.
C1_FixedOrder ==
    experiment.model \in SupportedModels =>
        /\ IsPrefix(SelectSeq(events, IsOrderedStep), OrderedSteps)
        /\ \A q \in Queries : Happened(q) =>
                /\ Count(q) = 1
                /\ trainer.state = "TRAINED"
                /\ Happened("run_training")
                /\ model_dir # <<>>
        /\ \A e \in SaveEvents : Happened(e) =>
                \E f \in written : f.path = <<model_dir, SavedFile(e)>>
        /\ \A f \in written : f.path[1] = model_dir
        /\ Cardinality(written) = Cardinality({e \in SaveEvents : Happened(e)})
        /\ result.kind = "returned" =>
                /\ SelectSeq(events, IsOrderedStep) = OrderedSteps
                /\ result.value = model_dir
                /\ Cardinality(written) = 3

C1_Witness ==
    /\ Returned_("mnist", "avb+ac")
    /\ Cardinality(written) = 3
    /\ result.value = <<"output", "avb_with_ac", "mnist">>
    /\ Len(events) = 13

\* C2 (as claimed): an unsupported model string makes the entry point raise
\* its configuration error before any other work of the experiment: no data
\* set loaded, no trainer constructed, no training, no query, no file; a
\* supported string constructs exactly one trainer of the matching variant.
C2_FailFastBeforeAnyWork ==
    /\ (result = [kind |-> "raised", value |-> <<"ValueError">>]) =>
            /\ experiment.model \notin SupportedModels
            /\ events = <<>>
            /\ trainer = NoTrainer
            /\ written = {}
    /\ (experiment.model \in SupportedModels /\ Happened("construct_trainer")) =>
            /\ Count("construct_trainer") = 1
            /\ trainer.cls = IF experiment.model = "vae" THEN "VAEModelTrainer"
                             ELSE "AVBModelTrainer"
            /\ experiment.model = "avb" => ~trainer.use_adaptive_contrast
            /\ experiment.model = "avb+ac" => trainer.use_adaptive_contrast

\* C3 (as claimed): whenever an entry point returns, the graph/session
\* context its experiment acquired has been released.
C3_ContextReleasedOnReturn ==
    (pc = "idle" /\ result.kind = "returned") => graph = {}

====
